---- MODULE Spec2Model ----
(***************************************************************************)
(* Model of the Rust PCI driver binding layer:                             *)
(*   rust/kernel/device.rs  - the ref-counted Device handle                *)
(*   rust/kernel/pci.rs     - DeviceId and the identification table, the   *)
(*                            driver Adapter (registration, probe/remove   *)
(*                            dispatch) and the PCI Device (resources,     *)
(*                            IRQ vectors)                                 *)
(* The host subsystem (get_device/put_device, pci_* calls, the error       *)
(* conversion helpers and the ForeignOwnable conversions) lives outside    *)
(* these two files; it is modelled at its boundary.                        *)
(***************************************************************************)
EXTENDS Integers, Sequences, FiniteSets, TLC

(***************************************************************************)
(* Bounds of the model.                                                    *)
(***************************************************************************)
\* largest reference count a host device object starts with
MaxInitRef == 2
\* most Device handles alive at once on one host object
MaxHandles == 2
\* most clone operations recorded per host object since the last snapshot
MaxClones == 2

\* the host device objects (struct device) handles can point to
Devices == {"devA", "devB"}

\* the null *mut bindings::device
NullPtr == "null"

\* the raw pointers a caller can hand to Device::new; the functions below keep
\* an entry for the null pointer, which stands for no object and stays 0
Ptrs == Devices \cup {NullPtr}

VARIABLES
    \* ---- device.rs: host refcounts and Device handles ----
    refcount,   \* refcount[d]: the host's reference count of object d
    hostRefs,   \* hostRefs[d]: counted references not owned by any handle
    live,       \* live[d]: number of live Device handles whose ptr is d
    snap,       \* snap[d]: refcount[d] when the current clone/drop run began
    clones,     \* clones[d]: clones since snap[d] was taken
    drops,      \* drops[d]: drops since snap[d] was taken
    lastOp,     \* the last handle operation: [op, ptr, before]
    \* ---- pci.rs: Adapter (probe/remove dispatch for one pci_dev) ----
    pc,         \* "idle", or "probing" while T::probe runs inside probe_callback
    bound,      \* host: the driver is bound (probe succeeded, remove not yet called)
    drvdata,    \* the pci_dev's private-data slot (pci_set_drvdata/pci_get_drvdata)
    log,        \* log[S]: what happened to private state S, in order
    owner,      \* the state the driver's probe returned for the current binding
    lastProbe,  \* the last finished probe dispatch: [done, result, ret, slot]
    lastRemove, \* the last remove dispatch: [done, arg, owner]
    \* ---- pci.rs: Device (the value local to probe_callback) ----
    dev,        \* the pci::Device value, [res_taken], or NoDev outside probe
    calls,      \* calls[i]: take_resource(i) calls made on this Device value
    handed,     \* handed[i]: times take_resource(i) returned a region on it
    irqVecs,    \* host: interrupt vectors currently allocated to the pci_dev
    last,       \* the last Device method call and its result
    prevHanded, \* handed, as the previous Device value of this pci_dev left it
    \* ---- pci.rs: DeviceId, the identification table, registration ----
    matched,    \* one record matched against one device: the inputs, then the result
    id_table,   \* T::ID_TABLE: the raw records and the metadata slots
    pdrv,       \* the registration descriptor (bindings::pci_driver)
    registered, \* host: the driver is registered
    lastReg,    \* the last register call: [done, name, desc, calls, result]
    probed,     \* the last probe dispatch: [done, pdev, id, info]
    \* ---- device.rs: Device handles owned by threads ----
    held,       \* held[t]: Device handles to devA that thread t owns
    tpc         \* tpc[t]: where thread t is inside clone or drop

handleVars == <<refcount, hostRefs, live, snap, clones, drops, lastOp>>

adapterVars == <<pc, bound, drvdata, log, owner, lastProbe, lastRemove>>

deviceVars == <<dev, calls, handed, irqVecs, last>>

busVars == <<matched, id_table, pdrv, registered, lastReg, probed, prevHanded>>

threadVars == <<held, tpc>>

vars == <<refcount, hostRefs, live, snap, clones, drops, lastOp,
          pc, bound, drvdata, log, owner, lastProbe, lastRemove,
          dev, calls, handed, irqVecs, last,
          matched, id_table, pdrv, registered, lastReg, probed, prevHanded,
          held, tpc>>

NoOp == [op |-> "none", ptr |-> "none", before |-> 0]

(***************************************************************************)
(* Host refcounting primitives (drivers/base/core.c), at their boundary.   *)
(***************************************************************************)
\* get_device(NULL) and put_device(NULL) do nothing
get_device(rc, ptr) == IF ptr = NullPtr THEN rc ELSE [rc EXCEPT ![ptr] = @ + 1]

put_device(rc, ptr) == IF ptr = NullPtr THEN rc ELSE [rc EXCEPT ![ptr] = @ - 1]

\* the host reclaims an object when its count reaches zero
Reclaimed(d) == refcount[d] = 0

(***************************************************************************)
(* device.rs: Device                                                       *)
(***************************************************************************)
\* a new() that forgets get_device
new_ref_forgotten(rc, ptr) == rc

\* the host call Device::new makes before it builds Self { ptr }
new_ref(rc, ptr) == get_device(rc, ptr)

\* a from_dev_no_reference() that takes a reference of its own, as new() does
no_reference_taken(rc, ptr) == get_device(rc, ptr)

\* Device::from_dev_no_reference makes no host call: the count is untouched
no_reference(rc, ptr) == rc

\* a drop that calls put_device twice
drop_ref_twice(rc, ptr) == put_device(put_device(rc, ptr), ptr)

\* the host call Drop::drop makes
drop_ref(rc, ptr) == put_device(rc, ptr)

\* Device::new: get_device(ptr), then Self { ptr }.
\* Safety requirement of the unsafe fn: ptr valid, non-null, with a non-zero
\* count; nothing in the function tests it, so a null ptr gets a handle too.
Device_new(ptr) ==
    /\ ptr = NullPtr \/ refcount[ptr] > 0
    /\ live[ptr] < MaxHandles
    /\ refcount' = new_ref(refcount, ptr)
    /\ live' = [live EXCEPT ![ptr] = @ + 1]
    /\ snap' = [snap EXCEPT ![ptr] = refcount'[ptr]]
    /\ clones' = [clones EXCEPT ![ptr] = 0]
    /\ drops' = [drops EXCEPT ![ptr] = 0]
    /\ lastOp' = [op |-> "new", ptr |-> ptr, before |-> refcount[ptr]]
    /\ UNCHANGED hostRefs
    /\ UNCHANGED <<adapterVars, deviceVars>>
    /\ UNCHANGED <<busVars, threadVars>>

\* Device::from_dev_no_reference: Self { ptr } with no get_device; the handle
\* takes over a reference that was already counted for the caller.
Device_from_dev_no_reference(ptr) ==
    /\ hostRefs[ptr] > 0
    /\ live[ptr] < MaxHandles
    /\ refcount' = no_reference(refcount, ptr)
    /\ hostRefs' = [hostRefs EXCEPT ![ptr] = @ - 1]
    /\ live' = [live EXCEPT ![ptr] = @ + 1]
    /\ snap' = [snap EXCEPT ![ptr] = refcount'[ptr]]
    /\ clones' = [clones EXCEPT ![ptr] = 0]
    /\ drops' = [drops EXCEPT ![ptr] = 0]
    /\ lastOp' = [op |-> "adopt", ptr |-> ptr, before |-> refcount[ptr]]
    /\ UNCHANGED <<adapterVars, deviceVars>>
    /\ UNCHANGED <<busVars, threadVars>>

\* Clone::clone: Self::from_dev(self) = Self::new(self.raw_device()).
Device_clone(ptr) ==
    /\ live[ptr] > 0
    /\ live[ptr] < MaxHandles
    /\ clones[ptr] < MaxClones
    /\ refcount' = new_ref(refcount, ptr)
    /\ live' = [live EXCEPT ![ptr] = @ + 1]
    /\ clones' = [clones EXCEPT ![ptr] = @ + 1]
    /\ lastOp' = [op |-> "clone", ptr |-> ptr, before |-> refcount[ptr]]
    /\ UNCHANGED <<hostRefs, snap, drops>>
    /\ UNCHANGED <<adapterVars, deviceVars>>
    /\ UNCHANGED <<busVars, threadVars>>

\* Drop::drop: put_device(self.ptr).
Device_drop(ptr) ==
    /\ live[ptr] > 0
    /\ refcount' = drop_ref(refcount, ptr)
    /\ live' = [live EXCEPT ![ptr] = @ - 1]
    /\ drops' = [drops EXCEPT ![ptr] = @ + 1]
    /\ lastOp' = [op |-> "drop", ptr |-> ptr, before |-> refcount[ptr]]
    /\ UNCHANGED <<hostRefs, snap, clones>>
    /\ UNCHANGED <<adapterVars, deviceVars>>
    /\ UNCHANGED <<busVars, threadVars>>

(***************************************************************************)
(* device.rs: Device is Send and Sync.  Threads own handles to one host    *)
(* object, clone through a shared reference to a handle any thread owns,   *)
(* pass handles to each other and drop them.  The host's get_device and    *)
(* put_device change the count atomically, so each is one step; a clone's  *)
(* step and the return of the new handle, and the end of a handle's life   *)
(* and drop's step, are separate steps other threads interleave with.      *)
(***************************************************************************)
Threads == {"t1", "t2"}

\* the host object the threads' handles point to
SharedDev == "devA"

RECURSIVE SumOver(_, _)
\* the sum of f over the set S
SumOver(f, S) ==
    IF S = {}
        THEN 0
        ELSE LET x == CHOOSE y \in S : TRUE IN f[x] + SumOver(f, S \ {x})

\* handles alive, and handles a clone in progress is about to return
HandlesHeld == SumOver(held, Threads)

InClone == Cardinality({t \in Threads : tpc[t] = "cloned"})

InDrop == Cardinality({t \in Threads : tpc[t] = "dropping"})

\* Device::new called by thread t on the raw pointer, within its safety contract
thread_new(t) ==
    /\ tpc[t] = "idle"
    /\ refcount[SharedDev] > 0
    /\ HandlesHeld + InClone < MaxHandles
    /\ refcount' = new_ref(refcount, SharedDev)
    /\ held' = [held EXCEPT ![t] = @ + 1]
    /\ UNCHANGED <<hostRefs, live, snap, clones, drops, lastOp, tpc>>
    /\ UNCHANGED <<adapterVars, deviceVars, busVars>>

\* Clone::clone by thread t through &Device to a handle thread u owns:
\* from_dev(self) -> new(raw_device()) -> get_device
thread_clone_get(t, u) ==
    /\ tpc[t] = "idle"
    /\ held[u] > 0
    /\ HandlesHeld + InClone < MaxHandles
    /\ refcount' = new_ref(refcount, SharedDev)
    /\ tpc' = [tpc EXCEPT ![t] = "cloned"]
    /\ UNCHANGED <<hostRefs, live, snap, clones, drops, lastOp, held>>
    /\ UNCHANGED <<adapterVars, deviceVars, busVars>>

\* Clone::clone returns Self { ptr } to thread t
thread_clone_return(t) ==
    /\ tpc[t] = "cloned"
    /\ tpc' = [tpc EXCEPT ![t] = "idle"]
    /\ held' = [held EXCEPT ![t] = @ + 1]
    /\ UNCHANGED <<handleVars, adapterVars, deviceVars, busVars>>

\* a handle thread t owns goes out of scope: Drop::drop is entered
thread_drop_begin(t) ==
    /\ tpc[t] = "idle"
    /\ held[t] > 0
    /\ held' = [held EXCEPT ![t] = @ - 1]
    /\ tpc' = [tpc EXCEPT ![t] = "dropping"]
    /\ UNCHANGED <<handleVars, adapterVars, deviceVars, busVars>>

\* Drop::drop: put_device(self.ptr)
thread_drop_put(t) ==
    /\ tpc[t] = "dropping"
    /\ refcount' = drop_ref(refcount, SharedDev)
    /\ tpc' = [tpc EXCEPT ![t] = "idle"]
    /\ UNCHANGED <<hostRefs, live, snap, clones, drops, lastOp, held>>
    /\ UNCHANGED <<adapterVars, deviceVars, busVars>>

\* Send: thread t moves a handle it owns to thread u
thread_send(t, u) ==
    /\ t # u
    /\ tpc[t] = "idle"
    /\ held[t] > 0
    /\ held' = [held EXCEPT ![t] = @ - 1, ![u] = @ + 1]
    /\ UNCHANGED <<handleVars, adapterVars, deviceVars, busVars, tpc>>

(***************************************************************************)
(* Option values and bit operations used throughout pci.rs.                *)
(***************************************************************************)
None == [some |-> FALSE]

Some(v) == [some |-> TRUE, val |-> v]

RECURSIVE BitAnd(_, _)
\* a & b on unsigned integers
BitAnd(a, b) ==
    IF a = 0 \/ b = 0
        THEN 0
        ELSE (IF a % 2 = 1 /\ b % 2 = 1 THEN 1 ELSE 0) + 2 * BitAnd(a \div 2, b \div 2)

RECURSIVE BitOr(_, _)
\* a | b on unsigned integers
BitOr(a, b) ==
    IF a = 0
        THEN b
        ELSE IF b = 0
            THEN a
            ELSE (IF a % 2 = 1 \/ b % 2 = 1 THEN 1 ELSE 0) + 2 * BitOr(a \div 2, b \div 2)

(***************************************************************************)
(* pci.rs: DeviceId, and the identification table built from it.  The      *)
(* table type (driver::IdArray) and the host's matching of a discovered    *)
(* device against a table live outside pci.rs; they are modelled at their  *)
(* boundary.                                                               *)
(***************************************************************************)
\* width in bits kept for the identifier fields (u32 in the code)
IdBits == 6
\* largest class code and class mask followed
MaxClass == 3
\* most records in a driver's identification table
MaxTable == 2

\* DeviceId::PCI_ANY_ID: !0, every bit of the field set
PCI_ANY_ID == 2 ^ IdBits - 1

Classes == 0..MaxClass

\* a DeviceId::new that leaves the subsystem fields zero instead of PCI_ANY_ID
DeviceId_new_zero_subsystem(vendor, device) ==
    [vendor |-> vendor, device |-> device,
     subvendor |-> 0, subdevice |-> 0,
     class |-> 0, class_mask |-> 0]

\* DeviceId::new (the PCI_DEVICE macro)
DeviceId_new(vendor, device) ==
    [vendor |-> vendor, device |-> device,
     subvendor |-> PCI_ANY_ID, subdevice |-> PCI_ANY_ID,
     class |-> 0, class_mask |-> 0]

\* DeviceId::with_class (the PCI_DEVICE_CLASS macro)
DeviceId_with_class(class, class_mask) ==
    [vendor |-> PCI_ANY_ID, device |-> PCI_ANY_ID,
     subvendor |-> PCI_ANY_ID, subdevice |-> PCI_ANY_ID,
     class |-> class, class_mask |-> class_mask]

\* a to_rawid that drops the offset
to_rawid_no_offset(self, offset) ==
    [vendor |-> self.vendor, device |-> self.device,
     subvendor |-> self.subvendor, subdevice |-> self.subdevice,
     class |-> self.class, class_mask |-> self.class_mask,
     driver_data |-> 0, override_only |-> 0]

\* DeviceId::to_rawid: the host's pci_device_id, with offset in driver_data
to_rawid(self, offset) ==
    [vendor |-> self.vendor, device |-> self.device,
     subvendor |-> self.subvendor, subdevice |-> self.subdevice,
     class |-> self.class, class_mask |-> self.class_mask,
     driver_data |-> offset, override_only |-> 0]

\* RawDeviceId::ZERO: the all-zero record that ends a table
ZERO ==
    [vendor |-> 0, device |-> 0, subvendor |-> 0, subdevice |-> 0,
     class |-> 0, class_mask |-> 0, driver_data |-> 0, override_only |-> 0]

\* host: does the discovered device pdev match the raw record id
pci_match_one_device(id, pdev) ==
    /\ id.vendor = PCI_ANY_ID \/ id.vendor = pdev.vendor
    /\ id.device = PCI_ANY_ID \/ id.device = pdev.device
    /\ id.subvendor = PCI_ANY_ID \/ id.subvendor = pdev.subsystem_vendor
    /\ id.subdevice = PCI_ANY_ID \/ id.subdevice = pdev.subsystem_device
    /\ BitAnd(pdev.class, id.class_mask) = BitAnd(id.class, id.class_mask)

\* the discovered devices records are matched against
PciDevs ==
    [vendor : {16, 17}, device : {32, 33}, subsystem_vendor : {0, 5},
     subsystem_device : {0}, class : Classes]

\* the record constructions matched against a device: new(a, b), with_class(a, b)
MatchInputs ==
    [op : {"pending"}, ctor : {"new"}, a : {16, 17, PCI_ANY_ID},
     b : {32, PCI_ANY_ID}, pdev : PciDevs]
        \cup [op : {"pending"}, ctor : {"with_class"}, a : Classes,
              b : Classes, pdev : PciDevs]

NoMatch == [op |-> "none"]

\* size of one raw record and of one metadata slot, in address units
IdSize == 2

InfoSize == 1

\* address of ids[k], relative to the start of the table
id_addr(k) == (k - 1) * IdSize

\* address of id_infos[k] in a table of n records: the metadata slots follow
\* the n records and the ZERO record that ends them
info_addr(k, n) == (n + 1) * IdSize + (k - 1) * InfoSize

\* driver::IdArray::new: record k becomes to_rawid(offset of id_infos[k] from ids[k])
IdArray_new(decls) ==
    LET n == Len(decls)
    IN [ids |-> [k \in 1..n |-> to_rawid(decls[k].id, info_addr(k, n) - id_addr(k))],
        sentinel |-> ZERO,
        id_infos |-> [k \in 1..n |-> decls[k].info]]

\* what a read outside every metadata slot yields
Garbage == [some |-> TRUE, val |-> "garbage"]

\* the Option<T::IdInfo> stored at addr
read_info(arr, addr) ==
    LET n == Len(arr.ids)
        hits == {k \in 1..n : info_addr(k, n) = addr}
    IN IF hits = {} THEN Garbage ELSE arr.id_infos[CHOOSE k \in hits : TRUE]

\* a probe_callback that adds the offset to the start of the table
probe_info_from_table_start(arr, id) ==
    read_info(arr, id_addr(1) + arr.ids[id].driver_data)

\* probe_callback: offset = (*id).driver_data; the metadata is read at
\* id + offset.  id points at record number id of the table.
probe_info(arr, id) ==
    read_info(arr, id_addr(id) + arr.ids[id].driver_data)

\* host: a record with these three fields zero ends the table
table_end(id) == id.vendor = 0 /\ id.subvendor = 0 /\ id.class_mask = 0

RECURSIVE pci_match_from(_, _, _)
\* host: the first record at or after k that matches pdev, 0 when none does
pci_match_from(arr, pdev, k) ==
    IF k > Len(arr.ids) \/ table_end(arr.ids[k])
        THEN 0
        ELSE IF pci_match_one_device(arr.ids[k], pdev)
            THEN k
            ELSE pci_match_from(arr, pdev, k + 1)

\* host pci_match_id: first match wins, in table order
pci_match_id(arr, pdev) == pci_match_from(arr, pdev, 1)

\* the metadata a driver pairs with its records
Infos == {None, Some("infoA"), Some("infoB")}

\* the records a driver declares, each with its metadata
Decls ==
    {[id |-> i, info |-> m] :
        i \in {DeviceId_new(16, PCI_ANY_ID), DeviceId_new(16, 32)}, m \in Infos}

\* the tables a driver can declare
Tables == {IdArray_new(s) : s \in UNION {[1..n -> Decls] : n \in 1..MaxTable}}

\* the table of the driver followed when the table is not the subject
DefaultTable ==
    IdArray_new(<<[id |-> DeviceId_new(16, PCI_ANY_ID), info |-> Some("infoA")]>>)

\* the devices the host discovers
Discovered ==
    {[vendor |-> v, device |-> d, subsystem_vendor |-> 0,
      subsystem_device |-> 0, class |-> 0] : v \in {16, 17}, d \in {32, 33}}

\* the pci_dev followed when matching is not the subject
ThePdev == [vendor |-> 16, device |-> 32, subsystem_vendor |-> 0,
            subsystem_device |-> 0, class |-> 0]

NoProbed == [done |-> FALSE]

\* host: the record built by new(a, b) or with_class(a, b), stored with
\* to_rawid, is matched against the device pdev
pci_match_device ==
    /\ matched.op = "pending"
    /\ LET id == IF matched.ctor = "new"
                    THEN DeviceId_new(matched.a, matched.b)
                    ELSE DeviceId_with_class(matched.a, matched.b)
       IN matched' = [op |-> "done", ctor |-> matched.ctor, a |-> matched.a,
                      b |-> matched.b, pdev |-> matched.pdev,
                      result |-> pci_match_one_device(to_rawid(id, 0), matched.pdev)]
    /\ UNCHANGED <<handleVars, adapterVars, deviceVars, threadVars>>
    /\ UNCHANGED <<id_table, pdrv, registered, lastReg, probed, prevHanded>>

(***************************************************************************)
(* pci.rs: Adapter.  One pci_dev is followed through the host's probe and  *)
(* remove callbacks; the host never runs them concurrently and calls       *)
(* remove only for a device whose probe succeeded.                         *)
(***************************************************************************)
\* most private states the driver's probe creates in one run of the model
MaxStates == 2

States == 1..MaxStates

\* error codes a driver's probe can fail with (negative errno values)
Errnos == {-12, -19}

\* the null pointer
NULL == [null |-> TRUE]

NoDev == [live |-> FALSE]

\* ForeignOwnable::into_foreign: the state's ownership becomes an opaque pointer
into_foreign(S) == [null |-> FALSE, addr |-> S]

\* ForeignOwnable::from_foreign: the opaque pointer becomes the owned state again
from_foreign(ptr) == ptr.addr

\* error::from_result: Ok(v) is returned as v, Err(e) as e's errno
from_result(r) == IF r.ok THEN r.val ELSE r.err.errno

Ok(v) == [ok |-> TRUE, val |-> v]

Err(e) == [ok |-> FALSE, err |-> e]

\* error::Error::from_errno: the error that carries the host's status
from_errno(ret) == [errno |-> ret]

\* the states the driver's probe has not created yet
Unused == {S \in States : log[S] = <<>>}

\* a from_ptr that starts from the claim on region 0 the pci_dev's previous
\* Device value made
from_ptr_stale == [live |-> TRUE, res_taken |-> IF handed[0] > 0 THEN 1 ELSE 0]

\* Device::from_ptr: Self { ptr, res_taken: 0 }
from_ptr == [live |-> TRUE, res_taken |-> 0]

\* the struct device embedded in the pci_dev that is probed and removed
PciDev == "devA"

\* a from_ptr that takes a host reference, as device::Device::new does
from_ptr_refs_counted(rc, ptr) == get_device(rc, ptr)

\* Device::from_ptr makes no host call: the count is untouched
from_ptr_refs(rc, ptr) == rc

\* pci::Device has no Drop: the end of its scope makes no host call
scope_end_refs(rc, ptr) == rc

\* probe_callback(pdev, id), up to the call of T::probe: the Device value is
\* built and the metadata of record id is recovered
probe_callback_begin(pdev, id) ==
    /\ pc = "idle"
    /\ ~bound
    /\ pc' = "probing"
    /\ dev' = from_ptr
    /\ refcount' = from_ptr_refs(refcount, PciDev)
    /\ probed' = [done |-> TRUE, pdev |-> pdev, id |-> id,
                  info |-> probe_info(id_table, id)]
    /\ prevHanded' = handed
    /\ calls' = [i \in DOMAIN calls |-> 0]
    /\ handed' = [i \in DOMAIN handed |-> 0]
    /\ UNCHANGED <<bound, drvdata, log, owner, lastProbe, lastRemove, irqVecs, last>>
    /\ UNCHANGED <<hostRefs, live, snap, clones, drops, lastOp>>
    /\ UNCHANGED <<matched, id_table, pdrv, registered, lastReg, threadVars>>

\* a probe_callback that clears the slot when the driver's probe fails
probe_store_clearing(slot, result) ==
    IF result.ok THEN into_foreign(result.val) ELSE NULL

\* what probe_callback leaves in the private-data slot: `?` returns early on
\* Err, so pci_set_drvdata(pdev, data.into_foreign()) runs on Ok only
probe_store(slot, result) ==
    IF result.ok THEN into_foreign(result.val) ELSE slot

\* what probe_callback's closure evaluates to: Err(e) from `?`, else Ok(0)
probe_closure(result) == IF result.ok THEN Ok(0) ELSE Err(result.err)

\* probe_callback, from the return of T::probe with `result` to its own return
probe_callback_end(result) ==
    /\ pc = "probing"
    /\ pc' = "idle"
    /\ drvdata' = probe_store(drvdata, result)
    /\ lastProbe' = [done |-> TRUE, result |-> result,
                     ret |-> from_result(probe_closure(result)),
                     slot |-> drvdata']
    /\ bound' = result.ok
    /\ log' = IF result.ok
                 THEN [log EXCEPT ![result.val] = <<"into_foreign">>]
                 ELSE log
    /\ owner' = IF result.ok THEN result.val ELSE owner
    /\ dev' = NoDev
    /\ refcount' = scope_end_refs(refcount, PciDev)
    /\ UNCHANGED <<lastRemove, calls, handed, irqVecs, last>>
    /\ UNCHANGED <<hostRefs, live, snap, clones, drops, lastOp>>
    /\ UNCHANGED <<busVars, threadVars>>

\* the results T::probe can return: a fresh private state, or an error
ProbeResults ==
    {Ok(S) : S \in {T \in Unused : \A U \in Unused : T <= U}}
        \cup {Err(from_errno(e)) : e \in Errnos}

\* a remove_callback that skips the device-removal hook
remove_steps_no_hook == <<"from_foreign", "remove", "drop">>

\* a remove_callback that destroys the state before it calls the driver
remove_steps_drop_first == <<"from_foreign", "drop", "remove", "device_remove">>

\* remove_callback's steps on the state it recovered, in program order:
\* from_foreign, T::remove(&data), device_remove(&data), data dropped at scope end
remove_steps == <<"from_foreign", "remove", "device_remove", "drop">>

\* remove_callback
remove_callback ==
    /\ pc = "idle"
    /\ bound
    /\ LET ptr == drvdata
           data == from_foreign(ptr)
       IN /\ log' = [log EXCEPT ![data] = @ \o remove_steps]
          /\ lastRemove' = [done |-> TRUE, arg |-> data, owner |-> owner]
    /\ bound' = FALSE
    /\ UNCHANGED <<pc, drvdata, owner, lastProbe, deviceVars>>
    /\ UNCHANGED handleVars
    /\ UNCHANGED <<busVars, threadVars>>

(***************************************************************************)
(* pci.rs: Adapter::register and unregister, and the host's dispatch of a  *)
(* discovered device to the registered driver.                             *)
(***************************************************************************)
\* a non-null pointer to x
ptr_to(x) == [null |-> FALSE, addr |-> x]

\* the registration descriptor (bindings::pci_driver) before register fills it
EmptyDriver == [name |-> NULL, probe |-> NULL, remove |-> NULL, id_table |-> NULL]

\* register: the four fields it stores into *reg before the host call
register_descriptor(reg, name) ==
    [reg EXCEPT !.name = ptr_to(name),
                !.probe = ptr_to("probe_callback"),
                !.remove = ptr_to("remove_callback"),
                !.id_table = ptr_to("ID_TABLE")]

\* the statuses __pci_register_driver returns: 0, or a negative errno
RegRets == {-16, -12, 0}

\* error::to_result: a negative status becomes the error that carries it
to_result(ret) == IF ret < 0 THEN Err(from_errno(ret)) ELSE Ok(0)

\* a register that calls the host again when the first call fails
register_host_calls_retrying(rets) ==
    IF rets[1] < 0 THEN <<rets[1], rets[2]>> ELSE <<rets[1]>>

\* the host registration calls register makes, as the statuses they return,
\* when the host would answer rets[1], rets[2], ... : one call
register_host_calls(rets) == <<rets[1]>>

DriverNames == {"rust_pci"}

\* Adapter::register
register(name, rets) ==
    /\ ~registered
    /\ LET desc == register_descriptor(pdrv, name)
           seen == register_host_calls(rets)
           ret == seen[Len(seen)]
       IN /\ pdrv' = desc
          /\ lastReg' = [done |-> TRUE, name |-> name, desc |-> desc,
                         calls |-> seen, result |-> to_result(ret)]
          /\ registered' = (ret = 0)
    /\ UNCHANGED <<handleVars, adapterVars, deviceVars, threadVars>>
    /\ UNCHANGED <<matched, id_table, probed, prevHanded>>

\* Adapter::unregister; the host has unbound the driver's devices by then
unregister ==
    /\ registered
    /\ pc = "idle"
    /\ ~bound
    /\ registered' = FALSE
    /\ UNCHANGED <<handleVars, adapterVars, deviceVars, threadVars>>
    /\ UNCHANGED <<matched, id_table, pdrv, lastReg, probed, prevHanded>>

\* host: a discovered device is offered to the registered driver; the probe
\* entry point is called with the first record of the table that matches
pci_device_probe(pdev) ==
    /\ registered
    /\ ~pdrv.probe.null
    /\ ~pdrv.id_table.null
    /\ LET id == pci_match_id(id_table, pdev)
       IN /\ id # 0
          /\ probe_callback_begin(pdev, id)

(***************************************************************************)
(* pci.rs: Device.  Its methods are called by the driver's probe on the    *)
(* Device value probe_callback built, so each is enabled while pc is       *)
(* "probing".                                                              *)
(***************************************************************************)
\* number of resource regions of a pci_dev (pdev.resource.len())
NumResources == 2

\* most take_resource calls followed per region index on one Device value
MaxTakeCalls == 2

\* the indices the driver asks for: the valid ones and one past the end
Indices == 0..NumResources

\* the host's resource table of the pci_dev: pdev.resource[index].  The
\* even-numbered regions are implemented; the odd-numbered ones are not, and
\* the host keeps the empty extent for them
resource(index) ==
    IF index % 2 = 0
        THEN [start |-> (index + 1) * 16, end |-> (index + 1) * 16 + 15]
        ELSE [start |-> 0, end |-> 0]

\* io_mem::Resource::new(start, end) -> Option<Resource>: the region's extent,
\* or None for the empty extent of a region that is not implemented
Resource_new(start, end) ==
    IF start = 0 THEN None ELSE Some([start |-> start, end |-> end])

\* 1 << index; index is below the region count where this is evaluated
Shl1(index) == 2 ^ index

\* a take_resource that writes `res_taken = 1 << index` instead of `|=`
take_resource_assigning(res_taken, index) ==
    IF index >= NumResources \/ BitAnd(res_taken, Shl1(index)) # 0
        THEN [res_taken |-> res_taken, ret |-> None]
        ELSE [res_taken |-> Shl1(index),
              ret |-> Resource_new(resource(index).start, resource(index).end)]

\* Device::take_resource: the new bitmask and the returned Option<Resource>
take_resource_step(res_taken, index) ==
    IF index >= NumResources \/ BitAnd(res_taken, Shl1(index)) # 0
        THEN [res_taken |-> res_taken, ret |-> None]
        ELSE [res_taken |-> BitOr(res_taken, Shl1(index)),
              ret |-> Resource_new(resource(index).start, resource(index).end)]

\* Device::take_resource(index)
take_resource(index) ==
    /\ pc = "probing"
    /\ calls[index] < MaxTakeCalls
    /\ LET r == take_resource_step(dev.res_taken, index)
       IN /\ dev' = [dev EXCEPT !.res_taken = r.res_taken]
          /\ last' = [op |-> "take_resource", index |-> index,
                      before |-> dev.res_taken, ret |-> r.ret]
          /\ handed' = [handed EXCEPT ![index] = IF r.ret.some THEN @ + 1 ELSE @]
    /\ calls' = [calls EXCEPT ![index] = @ + 1]
    /\ UNCHANGED <<adapterVars, irqVecs>>
    /\ UNCHANGED handleVars
    /\ UNCHANGED <<busVars, threadVars>>

\* largest min_vecs and max_vecs a driver requests
MaxVecs == 2

\* most interrupt vectors the host can supply to the device
MaxSupply == 2

\* largest pre_vectors / post_vectors of an affinity partition
MaxResv == 1

\* statuses a host call can return through its c_int
HostRets == {-22, -16, 0, 1}

\* the flags a driver passes
FlagSets == {{"MSIX"}, {"MSIX", "AFFINITY"}}

Min2(a, b) == IF a <= b THEN a ELSE b

\* bindings::pci_alloc_irq_vectors_affinity on a host that can supply at most K
\* vectors: the statuses it can return.  It rejects min > max, fails when it
\* cannot supply min, and, given an affinity partition, allocates no count
\* below pre + post.
pci_alloc_irq_vectors_affinity(req, K) ==
    LET enforce == "AFFINITY" \in req.flags /\ ~req.affd.null
        resv == IF enforce THEN req.affd.pre_vectors + req.affd.post_vectors ELSE 0
        fits == {n \in req.min_vecs..Min2(req.max_vecs, K) : resv <= n}
    IN IF req.min_vecs > req.max_vecs
          THEN {-22}
          ELSE IF K < req.min_vecs \/ fits = {}
              THEN {-28}
              ELSE fits

\* `ret as u32` of a c_int that is not negative
as_u32(ret) == ret

\* Device::enable_device_mem: `if ret != 0 { Err(from_errno(ret)) } else { Ok(()) }`
enable_device_mem_result(ret) ==
    IF ret # 0 THEN Err(from_errno(ret)) ELSE Ok(<<>>)

\* Device::request_selected_regions: the same test on its host call
request_selected_regions_result(ret) ==
    IF ret # 0 THEN Err(from_errno(ret)) ELSE Ok(<<>>)

\* an alloc_irq_vectors that hands min_vecs and max_vecs over in the wrong order
alloc_irq_vectors_request_swapped(min_vecs, max_vecs, flags) ==
    [min_vecs |-> max_vecs, max_vecs |-> min_vecs, flags |-> flags, affd |-> NULL]

\* Device::alloc_irq_vectors: the arguments of its host call (affd is null)
alloc_irq_vectors_request(min_vecs, max_vecs, flags) ==
    [min_vecs |-> min_vecs, max_vecs |-> max_vecs, flags |-> flags, affd |-> NULL]

\* an alloc_irq_vectors that never tests the host's status
alloc_irq_vectors_result_unchecked(ret) == Ok(as_u32(ret))

\* Device::alloc_irq_vectors: `if ret < 0 { Err(from_errno(ret)) } else { Ok(ret as _) }`
alloc_irq_vectors_result(ret) ==
    IF ret < 0 THEN Err(from_errno(ret)) ELSE Ok(as_u32(ret))

\* an alloc_irq_vectors_affinity that passes no partition to the host
alloc_irq_vectors_affinity_request_no_affd(min_vecs, max_vecs, pre, post, flags) ==
    [min_vecs |-> min_vecs, max_vecs |-> max_vecs,
     flags |-> flags \cup {"AFFINITY"}, affd |-> NULL]

\* Device::alloc_irq_vectors_affinity: the arguments of its host call
alloc_irq_vectors_affinity_request(min_vecs, max_vecs, pre, post, flags) ==
    [min_vecs |-> min_vecs, max_vecs |-> max_vecs,
     flags |-> flags \cup {"AFFINITY"},
     affd |-> [null |-> FALSE, pre_vectors |-> pre, post_vectors |-> post]]

\* Device::alloc_irq_vectors_affinity: the same test as alloc_irq_vectors
alloc_irq_vectors_affinity_result(ret) ==
    IF ret < 0 THEN Err(from_errno(ret)) ELSE Ok(as_u32(ret))

\* Device::enable_device_mem
enable_device_mem ==
    /\ pc = "probing"
    /\ \E ret \in HostRets :
          last' = [op |-> "enable_device_mem", hostRet |-> ret, hostCalls |-> 1,
                   result |-> enable_device_mem_result(ret)]
    /\ UNCHANGED <<adapterVars, dev, calls, handed, irqVecs>>
    /\ UNCHANGED handleVars
    /\ UNCHANGED <<busVars, threadVars>>

\* Device::request_selected_regions(bars, name)
request_selected_regions(bars) ==
    /\ pc = "probing"
    /\ \E ret \in HostRets :
          last' = [op |-> "request_selected_regions", bars |-> bars,
                   hostRet |-> ret, hostCalls |-> 1,
                   result |-> request_selected_regions_result(ret)]
    /\ UNCHANGED <<adapterVars, dev, calls, handed, irqVecs>>
    /\ UNCHANGED handleVars
    /\ UNCHANGED <<busVars, threadVars>>

\* Device::alloc_irq_vectors(min_vecs, max_vecs, flags)
alloc_irq_vectors(min_vecs, max_vecs, flags) ==
    /\ pc = "probing"
    /\ \E K \in 0..MaxSupply :
          LET req == alloc_irq_vectors_request(min_vecs, max_vecs, flags)
          IN \E ret \in pci_alloc_irq_vectors_affinity(req, K) :
                /\ last' = [op |-> "alloc_irq_vectors", min_vecs |-> min_vecs,
                            max_vecs |-> max_vecs, flags |-> flags, K |-> K,
                            hostRet |-> ret, hostCalls |-> 1, vecsBefore |-> irqVecs,
                            result |-> alloc_irq_vectors_result(ret)]
                /\ irqVecs' = IF ret >= 0 THEN ret ELSE irqVecs
    /\ UNCHANGED <<adapterVars, dev, calls, handed>>
    /\ UNCHANGED handleVars
    /\ UNCHANGED <<busVars, threadVars>>

\* Device::alloc_irq_vectors_affinity(min_vecs, max_vecs, pre, post, flags)
alloc_irq_vectors_affinity(min_vecs, max_vecs, pre, post, flags) ==
    /\ pc = "probing"
    /\ \E K \in 0..MaxSupply :
          LET req == alloc_irq_vectors_affinity_request(min_vecs, max_vecs, pre, post, flags)
          IN \E ret \in pci_alloc_irq_vectors_affinity(req, K) :
                /\ last' = [op |-> "alloc_irq_vectors_affinity", min_vecs |-> min_vecs,
                            max_vecs |-> max_vecs, pre |-> pre, post |-> post,
                            flags |-> flags, K |-> K,
                            hostRet |-> ret, hostCalls |-> 1, vecsBefore |-> irqVecs,
                            result |-> alloc_irq_vectors_affinity_result(ret)]
                /\ irqVecs' = IF ret >= 0 THEN ret ELSE irqVecs
    /\ UNCHANGED <<adapterVars, dev, calls, handed>>
    /\ UNCHANGED handleVars
    /\ UNCHANGED <<busVars, threadVars>>

\* Device::free_irq_vectors
free_irq_vectors ==
    /\ pc = "probing"
    /\ irqVecs' = 0
    /\ last' = [op |-> "free_irq_vectors"]
    /\ UNCHANGED <<adapterVars, dev, calls, handed>>
    /\ UNCHANGED handleVars
    /\ UNCHANGED <<busVars, threadVars>>

(***************************************************************************)
(* Initial state and specifications.                                       *)
(***************************************************************************)
\* every variable but the identification table and the match under study
InitBase ==
    /\ \E f \in [Devices -> 1..MaxInitRef] :
          refcount = [p \in Ptrs |-> IF p = NullPtr THEN 0 ELSE f[p]]
    /\ hostRefs = refcount
    /\ live = [p \in Ptrs |-> 0]
    /\ snap = refcount
    /\ clones = [p \in Ptrs |-> 0]
    /\ drops = [p \in Ptrs |-> 0]
    /\ lastOp = NoOp
    /\ pc = "idle"
    /\ bound = FALSE
    /\ drvdata = NULL
    /\ log = [S \in States |-> <<>>]
    /\ owner = 0
    /\ lastProbe = [done |-> FALSE, result |-> Ok(0), ret |-> 0, slot |-> NULL]
    /\ lastRemove = [done |-> FALSE, arg |-> 0, owner |-> 0]
    /\ dev = NoDev
    /\ calls = [i \in Indices |-> 0]
    /\ handed = [i \in Indices |-> 0]
    /\ irqVecs = 0
    /\ last = [op |-> "none"]
    /\ prevHanded = [i \in Indices |-> 0]
    /\ pdrv = EmptyDriver
    /\ registered = FALSE
    /\ lastReg = [done |-> FALSE]
    /\ probed = NoProbed
    /\ held = [t \in Threads |-> 0]
    /\ tpc = [t \in Threads |-> "idle"]

Init ==
    /\ InitBase
    /\ id_table = DefaultTable
    /\ matched = NoMatch

\* the pci_dev and its Device value start the same in every initial state
InitPci ==
    /\ Init
    /\ refcount = [p \in Ptrs |-> IF p = NullPtr THEN 0 ELSE 1]

\* device.rs: operations on Device handles
NextHandle ==
    \/ \E ptr \in Devices : Device_new(ptr)
    \/ \E ptr \in Devices : Device_from_dev_no_reference(ptr)
    \/ \E ptr \in Devices : Device_clone(ptr)
    \/ \E ptr \in Devices : Device_drop(ptr)

\* pci.rs: the host's callbacks, and the driver's probe claiming regions
NextAdapter ==
    \/ \E id \in 1..Len(id_table.ids) : probe_callback_begin(ThePdev, id)
    \/ \E result \in ProbeResults : probe_callback_end(result)
    \/ remove_callback
    \/ \E index \in Indices : take_resource(index)

\* pci.rs: the Device methods that call into the host
NextDevice ==
    \/ \E id \in 1..Len(id_table.ids) : probe_callback_begin(ThePdev, id)
    \/ enable_device_mem
    \/ \E bars \in 0..(2 ^ NumResources - 1) : request_selected_regions(bars)
    \/ \E min_vecs \in 0..MaxVecs, max_vecs \in 0..MaxVecs, flags \in FlagSets :
          alloc_irq_vectors(min_vecs, max_vecs, flags)
    \/ \E min_vecs \in 0..MaxVecs, max_vecs \in 0..MaxVecs,
          pre \in 0..MaxResv, post \in 0..MaxResv, flags \in FlagSets :
          alloc_irq_vectors_affinity(min_vecs, max_vecs, pre, post, flags)
    \/ free_irq_vectors

\* device.rs: handles shared and passed between threads
NextThreads ==
    \/ \E t \in Threads : thread_new(t)
    \/ \E t \in Threads, u \in Threads : thread_clone_get(t, u)
    \/ \E t \in Threads : thread_clone_return(t)
    \/ \E t \in Threads : thread_drop_begin(t)
    \/ \E t \in Threads : thread_drop_put(t)
    \/ \E t \in Threads, u \in Threads : thread_send(t, u)

\* pci.rs: one record built and matched against one device
NextMatch == pci_match_device

\* pci.rs: registration, and the host dispatching discovered devices
NextDispatch ==
    \/ \E name \in DriverNames, rets \in [1..2 -> RegRets] : register(name, rets)
    \/ unregister
    \/ \E pdev \in Discovered : pci_device_probe(pdev)
    \/ \E result \in ProbeResults : probe_callback_end(result)
    \/ remove_callback

Next == NextHandle \/ NextAdapter \/ NextDevice \/ NextThreads \/ NextMatch \/ NextDispatch

Spec == Init /\ [][Next]_vars

SpecThreads == Init /\ [][NextThreads]_vars

\* every record construction and device of MatchInputs is an initial state
InitMatch ==
    /\ InitBase
    /\ refcount = [p \in Ptrs |-> IF p = NullPtr THEN 0 ELSE 1]
    /\ id_table = DefaultTable
    /\ matched \in MatchInputs

SpecMatch == InitMatch /\ [][NextMatch]_vars

\* every table of Tables is an initial state
InitDispatch ==
    /\ InitBase
    /\ refcount = [p \in Ptrs |-> IF p = NullPtr THEN 0 ELSE 1]
    /\ id_table \in Tables
    /\ matched = NoMatch

SpecDispatch == InitDispatch /\ [][NextDispatch]_vars

SpecHandle == Init /\ [][NextHandle]_vars

\* device.rs: the same operations, with callers that also pass a null pointer
NextHandleUnchecked ==
    \/ \E ptr \in {"devA", NullPtr} : Device_new(ptr)
    \/ Device_from_dev_no_reference("devA")
    \/ \E ptr \in {"devA", NullPtr} : Device_clone(ptr)
    \/ \E ptr \in {"devA", NullPtr} : Device_drop(ptr)

SpecHandleUnchecked == Init /\ [][NextHandleUnchecked]_vars

SpecAdapter == InitPci /\ [][NextAdapter]_vars

SpecDevice == InitPci /\ [][NextDevice]_vars


(***************************************************************************)
(* Properties of the Device handle (device.rs), under SpecHandle.          *)
(***************************************************************************)
\* C3: after N clones and N drops of handles to a device, in any order, the
\* host refcount is back at the value it had before the clones.
Thm_C3_CloneDropRoundTrip ==
    \A d \in Devices : clones[d] = drops[d] => refcount[d] = snap[d]

\* C3 witness: two clones and two drops have been made on one device
Wit_C3_TwoClonesTwoDrops ==
    \E d \in Devices :
        /\ clones[d] >= 2
        /\ drops[d] = clones[d]
        /\ lastOp.op = "drop"
        /\ lastOp.ptr = d

\* C4: every live handle owns exactly one increment of the refcount: new and
\* clone raise it by one, adopt leaves it unchanged and takes over a reference
\* already counted, drop lowers it by one; the count is never below the number
\* of live handles and the object is not reclaimed while a handle is alive.
Thm_C4_HandleOwnsOneReference ==
    /\ \A d \in Devices :
          /\ refcount[d] = hostRefs[d] + live[d]
          /\ refcount[d] >= live[d]
          /\ Reclaimed(d) => live[d] = 0
    /\ lastOp.op \in {"new", "clone"} => refcount[lastOp.ptr] = lastOp.before + 1
    /\ lastOp.op = "adopt" => refcount[lastOp.ptr] = lastOp.before
    /\ lastOp.op = "drop" => refcount[lastOp.ptr] = lastOp.before - 1

\* C4 witness: a handle was adopted while another handle to the device is alive
Wit_C4_AdoptBesideLiveHandle ==
    /\ lastOp.op = "adopt"
    /\ live[lastOp.ptr] >= 2
    /\ hostRefs[lastOp.ptr] = 0

\* C11 (as amended): Device::new never fails. For a null raw_ref it leaves
\* every refcount unchanged and still returns a handle (one that wraps null);
\* for a non-null raw_ref it raises that object's refcount by exactly one,
\* leaves the others unchanged and returns an owning handle.
Thm_C11_NewNeverFails ==
    [][lastOp'.op = "new" =>
          /\ live'[lastOp'.ptr] = live[lastOp'.ptr] + 1
          /\ IF lastOp'.ptr = NullPtr
                THEN refcount' = refcount
                ELSE refcount' = [refcount EXCEPT ![lastOp'.ptr] = @ + 1]]_vars

\* C11 witness: new was called with a null pointer and returned a handle
Wit_C11_NullHandle ==
    /\ lastOp.op = "new"
    /\ lastOp.ptr = NullPtr
    /\ live[NullPtr] = 1

\* C11 (as stated): new(raw_ref) fails when raw_ref is null, leaving every
\* refcount unchanged and producing no handle; for a non-null raw_ref it
\* raises the refcount by exactly one and returns an owning handle.
Cex_C11_NullNewFails ==
    [][lastOp'.op = "new" =>
          IF lastOp'.ptr = NullPtr
              THEN refcount' = refcount /\ live' = live
              ELSE /\ refcount' = [refcount EXCEPT ![lastOp'.ptr] = @ + 1]
                   /\ live'[lastOp'.ptr] = live[lastOp'.ptr] + 1]_vars

(***************************************************************************)
(* Properties of probe/remove dispatch and take_resource, under            *)
(* SpecAdapter.                                                            *)
(***************************************************************************)
Count(seq, e) == Cardinality({i \in DOMAIN seq : seq[i] = e})

\* C1: a probe whose driver probe succeeds with state S stores S in the slot
\* and returns 0; the following remove passes S to the driver's remove; S is
\* finalized (hook run, state destroyed) exactly once.
Thm_C1_ProbeRemoveHandOff ==
    /\ (lastProbe.done /\ lastProbe.result.ok) =>
          /\ lastProbe.ret = 0
          /\ from_foreign(lastProbe.slot) = lastProbe.result.val
    /\ bound =>
          /\ ~drvdata.null
          /\ from_foreign(drvdata) = owner
          /\ log[owner] = <<"into_foreign">>
    /\ lastRemove.done => lastRemove.arg = lastRemove.owner
    /\ \A S \in States :
          /\ Count(log[S], "remove") <= 1
          /\ Count(log[S], "device_remove") <= 1
          /\ Count(log[S], "drop") <= 1
          /\ (log[S] # <<>> /\ ~(bound /\ owner = S)) =>
                /\ Count(log[S], "remove") = 1
                /\ Count(log[S], "device_remove") = 1
                /\ Count(log[S], "drop") = 1

\* C1 witness: a state was stored by probe, handed to remove and finalized
Wit_C1_StateFinalizedByRemove ==
    \E S \in States :
        /\ lastProbe.done /\ lastProbe.result = Ok(S) /\ lastProbe.ret = 0
        /\ lastRemove.done /\ lastRemove.arg = S
        /\ Count(log[S], "device_remove") = 1
        /\ Count(log[S], "drop") = 1

\* C2: when the driver's probe returns an error E, the host gets E's negative
\* code and the private-data slot is as before: nothing stored, nothing created.
Thm_C2_FailedProbeStoresNothing ==
    [][(pc = "probing" /\ pc' = "idle" /\ ~lastProbe'.result.ok) =>
          /\ lastProbe'.ret = lastProbe'.result.err.errno
          /\ lastProbe'.ret < 0
          /\ drvdata' = drvdata
          /\ log' = log
          /\ ~bound']_vars

\* C2 witness: a probe failed on a device whose slot still held a pointer
Wit_C2_FailedProbeAfterRemove ==
    /\ lastProbe.done
    /\ ~lastProbe.result.ok
    /\ lastProbe.ret = -19
    /\ ~drvdata.null

\* the extent of region i in the host's resource table
Extent(i) == [start |-> resource(i).start, end |-> resource(i).end]

\* C5: on one Device value the first take_resource(i) of a valid i returns the
\* region, every later one returns "unavailable"; an i at or past the region
\* count always returns "unavailable".
Cex_C5_TakeResourceOneShot ==
    (pc = "probing" /\ last.op = "take_resource" /\ calls[last.index] > 0) =>
        IF last.index < NumResources
            THEN /\ calls[last.index] = 1 =>
                      (last.ret.some /\ last.ret.val = Extent(last.index))
                 /\ calls[last.index] >= 2 => ~last.ret.some
            ELSE ~last.ret.some

\* C6: the claim bitmask of a Device value only grows, and take_resource hands
\* out the region of an index at most once.
Thm_C6_BitmaskOnlyGrows ==
    /\ [](\A i \in Indices : handed[i] <= 1)
    /\ [][(pc = "probing" /\ pc' = "probing") =>
             \A i \in 0..(NumResources - 1) :
                 BitAnd(dev.res_taken, 2 ^ i) # 0 => BitAnd(dev'.res_taken, 2 ^ i) # 0]_vars

\* C6 witness: every region of the Device value has been claimed, and each
\* implemented one was handed out
Wit_C6_AllRegionsClaimed ==
    /\ pc = "probing"
    /\ dev.res_taken = 2 ^ NumResources - 1
    /\ \A i \in 0..(NumResources - 1) :
          handed[i] = IF resource(i).start = 0 THEN 0 ELSE 1

Thm_C8_AllocWithinRange ==
    (last.op = "alloc_irq_vectors" /\ last.min_vecs <= last.max_vecs) =>
        /\ last.hostCalls = 1
        /\ last.K >= last.min_vecs =>
              /\ last.result.ok
              /\ last.min_vecs <= last.result.val
              /\ last.result.val <= last.max_vecs
              /\ last.result.val <= last.K
              /\ last.result.val = last.hostRet
              /\ irqVecs = last.result.val
        /\ last.K < last.min_vecs => ~last.result.ok

\* C8 witness: min=1, max above what the host can supply: success with n <= K
Wit_C8_HostSuppliesLessThanMax ==
    /\ last.op = "alloc_irq_vectors"
    /\ last.min_vecs = 1
    /\ last.max_vecs = 2
    /\ last.K = 1
    /\ last.result.ok
    /\ last.result.val = 1

\* C9: every successful alloc_irq_vectors_affinity(min, max, pre, post, flags)
\* returns a count n with pre + post <= n.
Thm_C9_AffinityPartitionFits ==
    (last.op = "alloc_irq_vectors_affinity" /\ last.result.ok) =>
        last.pre + last.post <= last.result.val

\* C9 witness: a successful allocation with a partition that fills the count
Wit_C9_PartitionFillsCount ==
    /\ last.op = "alloc_irq_vectors_affinity"
    /\ last.result.ok
    /\ last.pre = 1
    /\ last.post = 1
    /\ last.result.val = 2

\* the host calls of Device that return an integer status
StatusOps ==
    {"enable_device_mem", "request_selected_regions",
     "alloc_irq_vectors", "alloc_irq_vectors_affinity"}

\* C10: for every host call returning an integer status, a negative return r
\* yields an error whose code is -r and every zero or positive return yields
\* success; a positive return is never reported as an error.
Cex_C10_NonNegativeIsSuccess ==
    last.op \in StatusOps =>
        /\ last.hostRet < 0 =>
              (~last.result.ok /\ -last.result.err.errno = -last.hostRet)
        /\ last.hostRet >= 0 => last.result.ok

(***************************************************************************)
(* Properties of identifier matching (pci.rs DeviceId), under SpecMatch.   *)
(***************************************************************************)
\* C12: a record built by new(V, wildcard) with V a vendor, not the wildcard
\* itself, matches exactly the devices whose vendor is V, whatever their
\* device and subsystem fields; a record built by with_class(C, M) matches a
\* device if and only if (device.class & M) = (C & M).
Thm_C12_MatchByVendorOrClass ==
    matched.op = "done" =>
        /\ (matched.ctor = "new" /\ matched.b = PCI_ANY_ID /\ matched.a # PCI_ANY_ID)
              => (matched.result <=> matched.pdev.vendor = matched.a)
        /\ matched.ctor = "with_class"
              => (matched.result <=>
                    BitAnd(matched.pdev.class, matched.b) = BitAnd(matched.a, matched.b))

\* a vendor record matched a device of its vendor whose subsystem vendor is
\* set and whose device field is not the one usually paired with it
Wit_C12_VendorRecordMatches ==
    /\ matched.op = "done"
    /\ matched.ctor = "new"
    /\ matched.a = 16
    /\ matched.b = PCI_ANY_ID
    /\ matched.pdev.vendor = 16
    /\ matched.pdev.device = 33
    /\ matched.pdev.subsystem_vendor = 5
    /\ matched.result

\* C12 as stated, for every V: new(V, wildcard) matches no device whose vendor
\* differs from V.  V = PCI_ANY_ID is a value new accepts, and that record
\* matches every vendor.
Cex_C12_EveryVendorValue ==
    (matched.op = "done" /\ matched.ctor = "new" /\ matched.b = PCI_ANY_ID)
        => (matched.result <=> matched.pdev.vendor = matched.a)

(***************************************************************************)
(* Properties of registration and dispatch (pci.rs Adapter), under         *)
(* SpecDispatch.                                                           *)
(***************************************************************************)
\* C13: when probe is dispatched for the record at position k of the table,
\* the driver's probe receives exactly the metadata paired with record k when
\* the table was built: that record's value, or "no metadata" when its slot is
\* empty, and never the metadata of another record.
Thm_C13_MetadataOfMatchedRecord ==
    probed.done =>
        /\ probed.id \in 1..Len(id_table.ids)
        /\ probed.info = id_table.id_infos[probed.id]
        /\ ~id_table.id_infos[probed.id].some => probed.info = None

\* the second record of a table was matched; its slot is empty while the
\* first record's slot holds metadata, and probe received "no metadata"
Wit_C13_EmptySlotOfSecondRecord ==
    /\ probed.done
    /\ probed.id = 2
    /\ id_table.id_infos[1] = Some("infoA")
    /\ id_table.id_infos[2] = None
    /\ probed.info = None

\* the discovered devices of the scenario: 0x10:0x20 and 0x11:0x20
Pdev_10_20 == [vendor |-> 16, device |-> 32, subsystem_vendor |-> 0,
               subsystem_device |-> 0, class |-> 0]

Pdev_11_20 == [vendor |-> 17, device |-> 32, subsystem_vendor |-> 0,
               subsystem_device |-> 0, class |-> 0]

\* C14: the driver's probe runs, and the driver is bound, only while it is
\* registered by a register call that succeeded; probe is invoked only for a
\* device that matches a record of its table, and with the first
\* matching record in table order, whose metadata it is given.  With the table
\* of one record (vendor 0x10, any device): once registered and idle, device
\* 0x10:0x20 can be dispatched to the driver and gets that record's metadata,
\* and device 0x11:0x20 is never dispatched to it.
Thm_C14_DispatchFirstMatch ==
    /\ (pc = "probing" \/ bound) => (registered /\ lastReg.done /\ lastReg.result.ok)
    /\ probed.done =>
          /\ pci_match_one_device(id_table.ids[probed.id], probed.pdev)
          /\ \A j \in 1..(probed.id - 1) :
                ~pci_match_one_device(id_table.ids[j], probed.pdev)
          /\ probed.info = id_table.id_infos[probed.id]
    /\ id_table = DefaultTable =>
          /\ probed.done =>
                (probed.pdev.vendor = 16 /\ probed.id = 1 /\ probed.info = Some("infoA"))
          /\ ~ENABLED pci_device_probe(Pdev_11_20)
          /\ (registered /\ pc = "idle" /\ ~bound) => ENABLED pci_device_probe(Pdev_10_20)

\* the scenario: the one-record table is registered, device 0x10:0x20 was
\* dispatched with that record and its metadata, and the probe succeeded
Wit_C14_ScenarioProbeSucceeded ==
    /\ id_table = DefaultTable
    /\ registered
    /\ probed.done
    /\ probed.pdev = Pdev_10_20
    /\ probed.id = 1
    /\ probed.info = Some("infoA")
    /\ pc = "idle"
    /\ bound
    /\ lastProbe.result.ok
    /\ lastProbe.ret = 0

\* C15: register(name) stores the name, the probe entry point, the remove
\* entry point and the table pointer in the descriptor the host call is given,
\* makes exactly one host registration call, and returns an error carrying
\* the host's status if and only if that status is negative, success otherwise.
Thm_C15_RegisterOnceNoRetry ==
    lastReg.done =>
        /\ lastReg.desc.name = ptr_to(lastReg.name)
        /\ lastReg.desc.probe = ptr_to("probe_callback")
        /\ lastReg.desc.remove = ptr_to("remove_callback")
        /\ lastReg.desc.id_table = ptr_to("ID_TABLE")
        /\ pdrv = lastReg.desc
        /\ Len(lastReg.calls) = 1
        /\ lastReg.result.ok <=> lastReg.calls[1] >= 0
        /\ ~lastReg.result.ok => lastReg.result.err.errno = lastReg.calls[1]
        /\ registered => lastReg.result.ok

\* the host refused the registration with -EBUSY and register returned it
Wit_C15_HostRefusedRegistration ==
    /\ lastReg.done
    /\ lastReg.calls = <<-16>>
    /\ lastReg.result = Err(from_errno(-16))
    /\ ~registered

(***************************************************************************)
(* Properties of Device handles shared between threads (device.rs), under  *)
(* SpecThreads.                                                            *)
(***************************************************************************)
\* C16: in every interleaving of new, clone, drop and hand-over by several
\* threads, the host count is the count before any handle existed plus the
\* handles alive, plus the clones whose handle is about to be returned and
\* the drops whose release is still to come; so once every thread is between
\* operations it is the initial count plus the handles alive, the object is
\* not reclaimed while a handle is alive, and no handle is released twice.
Thm_C16_CountMatchesHandlesAcrossThreads ==
    /\ refcount[SharedDev] = hostRefs[SharedDev] + HandlesHeld + InClone + InDrop
    /\ (\A t \in Threads : tpc[t] = "idle")
          => refcount[SharedDev] = hostRefs[SharedDev] + HandlesHeld
    /\ HandlesHeld + InClone > 0 => ~Reclaimed(SharedDev)
    /\ refcount[SharedDev] >= hostRefs[SharedDev]

\* one thread is inside drop of the handle another thread has just cloned from
Wit_C16_CloneAndDropInterleaved ==
    /\ tpc["t1"] = "dropping"
    /\ tpc["t2"] = "cloned"
    /\ HandlesHeld = 0
    /\ refcount[SharedDev] = hostRefs[SharedDev] + 2

(***************************************************************************)
(* More properties of probe/remove dispatch (pci.rs Adapter), under        *)
(* SpecAdapter.                                                            *)
(***************************************************************************)
\* the positions of step s in the history h
Positions(h, s) == {i \in 1..Len(h) : h[i] = s}

\* C17: on every private state, remove dispatch takes the state out of the
\* slot at most once, and only after probe stored it; then the driver's remove
\* runs, then the device-removal hook, and the state is destroyed after both:
\* nothing happens to a state after its destruction.
Thm_C17_RemoveStepsInOrder ==
    \A S \in States :
        LET h == log[S]
        IN /\ Cardinality(Positions(h, "from_foreign")) <= 1
           /\ Cardinality(Positions(h, "drop")) <= 1
           /\ \A i \in Positions(h, "from_foreign") :
                 /\ i > 1
                 /\ h[i - 1] = "into_foreign"
                 /\ Positions(h, "remove") = {i + 1}
                 /\ Positions(h, "device_remove") = {i + 2}
                 /\ Positions(h, "drop") = {i + 3}
           /\ \A i \in Positions(h, "remove") \cup Positions(h, "device_remove") :
                 Positions(h, "from_foreign") # {}
           /\ \A i \in Positions(h, "drop") : i = Len(h)

\* both states of the run went through remove dispatch, one after the other
Wit_C17_TwoStatesRemoved ==
    /\ \A S \in States : Positions(log[S], "drop") # {}
    /\ lastRemove.done
    /\ lastRemove.arg = MaxStates

\* C18: a take_resource call that returns "unavailable" leaves the claim
\* bitmask of the Device value as it was.
Cex_C18_UnavailableLeavesBitmask ==
    [][(pc = "probing" /\ pc' = "probing" /\ calls' # calls /\ ~last'.ret.some)
          => dev'.res_taken = dev.res_taken]_vars

\* C19: probe and remove dispatch leave the host's reference count of the
\* device as it was: while the driver holds no Device handle of its own, the
\* count is the count from before the first callback.
Thm_C19_DispatchKeepsRefcount ==
    (\A p \in Ptrs : live[p] = 0) =>
        /\ refcount = hostRefs
        /\ refcount[PciDev] = 1

\* a successful probe, its remove and then a failed probe have all run
Wit_C19_ProbeRemoveFailedProbe ==
    /\ lastRemove.done
    /\ lastProbe.done
    /\ ~lastProbe.result.ok
    /\ pc = "idle"
    /\ refcount[PciDev] = 1

\* C20: every probe dispatch builds a Device value whose claim bitmask is
\* zero, so each region the previous Device value of the same pci_dev handed
\* out is handed out again by the first take_resource on the new one.
Thm_C20_BitmaskStartsEmptyEachProbe ==
    [][(pc = "idle" /\ pc' = "probing") =>
          /\ dev'.res_taken = 0
          /\ \A i \in 0..(NumResources - 1) :
                handed[i] > 0 => take_resource_step(dev'.res_taken, i).ret.some]_vars

\* after probe, remove, probe, a region handed out during the first probe
\* was handed out again during the second
Wit_C20_RegionTakenAgainAfterReprobe ==
    /\ pc = "probing"
    /\ lastRemove.done
    /\ prevHanded[0] = 1
    /\ handed[0] = 1
    /\ last.op = "take_resource"
    /\ last.index = 0
    /\ last.ret.some

====
